---- MODULE Spec2Model ----
(***************************************************************************)
(* Model of client/telemetry/src/layer.rs: the TelemetryLayer that routes  *)
(* telemetry events of the tracing pipeline to the per-span channel held   *)
(* in the Senders registry.                                                *)
(*                                                                         *)
(* Strings are sequences of one-character strings.  Option<T> is a         *)
(* sequence of length 0 (None) or 1 (Some).  The HashMap of Senders is a   *)
(* set of [key, sender] entries.  A sender is named by the channel it      *)
(* feeds.  A thread's position in on_event / insert is pc[t].              *)
(***************************************************************************)
EXTENDS Integers, Sequences, FiniteSets, TLC

(* ---------------------------------------------------------------------- *)
(* Bounds of the model.                                                    *)
(* ---------------------------------------------------------------------- *)
\* messages channel "A" holds before try_send reports it full
Cap == 2
\* number of threads that call on_event / insert concurrently in SpecConc
NThreads == 3
\* longest sequence of fields of an event in SpecDispatch
MaxFields == 3
\* largest number of spans in the scope of an event in SpecDispatch
MaxScope == 2

(* ---------------------------------------------------------------------- *)
(* Constants of the program and the universes inputs are drawn from.       *)
(* ---------------------------------------------------------------------- *)
TELEMETRY_LOG_SPAN == "telemetry-logger"

\* largest value of the u8 the channel carries
U8Max == 255

None == << >>
Some(x) == << x >>

\* span ids that may carry the marker name (the routing keys)
Keys == {1, 12}
\* the channels senders can feed
Chans == {"A", "B"}
\* the capacity each channel was created with (by whoever owns its far end)
ChanCap(c) == IF c = "A" THEN Cap ELSE 1

\* the spans the host framework may have in scope
TelSpan(k) == [name |-> TELEMETRY_LOG_SPAN, id |-> k]
OtherSpan == [name |-> "block-import", id |-> 3]

\* scopes in the order the host's scope iteration yields the spans
Scopes ==
  { << >>, << OtherSpan >>, << TelSpan(1) >>, << TelSpan(12) >>,
    << OtherSpan, TelSpan(1) >>, << TelSpan(12), TelSpan(1) >> }

Targets == {TELEMETRY_LOG_SPAN, "sync"}

\* a json value as the emitter writes it:  {"m":1}
JsonHello == << "{", "\"", "m", "\"", ":", "1", "}" >>

\* fields of an event: a name, the type the visitor is called with, and the
\* value (u64 for an unsigned integer, str for a string)
U64Field(n, v) == [name |-> n, type |-> "u64", u64 |-> v, str |-> << >>]
StrField(n, s) == [name |-> n, type |-> "str", u64 |-> 0, str |-> s]
DebugField(n)  == [name |-> n, type |-> "debug", u64 |-> 0, str |-> << >>]

FieldSeqs ==
  { << >>,
    << U64Field("message_verbosity", 255), StrField("json", JsonHello) >>,
    << StrField("json", JsonHello), U64Field("message_verbosity", 255) >>,
    << U64Field("message_verbosity", 256), StrField("json", JsonHello) >>,
    << U64Field("message_verbosity", 255) >>,
    << StrField("json", JsonHello) >>,
    << StrField("message_verbosity", << "3" >>), StrField("json", JsonHello) >>,
    << U64Field("message_verbosity", 255), DebugField("json") >>,
    << U64Field("verbosity", 255), StrField("json", JsonHello) >> }

Events == [target : Targets, scope : Scopes, fields : FieldSeqs]

NoEvent == [target |-> "", scope |-> << >>, fields |-> << >>]

(* ---------------------------------------------------------------------- *)
(* State.                                                                  *)
(* ---------------------------------------------------------------------- *)
VARIABLES
  senders,   \* Senders: the HashMap, a set of [key, sender] entries
  lock,      \* the parking_lot Mutex of Senders: 0 or the holding thread
  queue,     \* queue[c]: the messages buffered in channel c, head first
  rxAlive,   \* rxAlive[c]: the receiver of channel c has not been dropped
  pc,        \* pc[t]: the position of thread t
  ev,        \* ev[t]: the event on_event was called with
  id,        \* ev's resolved span id (Option)
  sender,    \* the sender get_mut returned (Option)
  attrs,     \* the TelemetryAttrs being filled
  arg,       \* arguments of the running insert call: <<id, sender>>
  diag,      \* log records written by the running call, in order
  sent,      \* <<channel, message>> enqueued by the running call, in order
  acq        \* number of times the running call locked the registry

vars == << senders, lock, queue, rxAlive, pc, ev, id, sender, attrs, arg,
           diag, sent, acq >>

Threads == DOMAIN pc

(* ---------------------------------------------------------------------- *)
(* Pure functions.                                                         *)
(* ---------------------------------------------------------------------- *)
DigitChars == << "0", "1", "2", "3", "4", "5", "6", "7", "8", "9" >>

\* the decimal text of a u64, as format!'s {} writes it
RECURSIVE ToDigits(_)
ToDigits(n) ==
  IF n < 10 THEN << DigitChars[n + 1] >>
  ELSE ToDigits(n \div 10) \o << DigitChars[(n % 10) + 1] >>

\* format!(r#"{{"id":{},"#, id)
IdPrefix(i) == << "{", "\"", "i", "d", "\"", ":" >> \o ToDigits(i) \o << "," >>

TelemetryAttrsNew_preset(i) ==
  [message_verbosity |-> Some(0), json |-> None, id |-> i]

\* TelemetryAttrs::new
TelemetryAttrsNew(i) == [message_verbosity |-> None, json |-> None, id |-> i]

StrFrom1_brace(value) ==
  IF Head(value) = "{" THEN SubSeq(value, 2, Len(value)) ELSE value

StrFrom1_whole(value) == value

\* &value[1..], which panics when the string is empty
StrFrom1(value) == SubSeq(value, 2, Len(value))
StrFrom1Panics(value) == Len(value) < 1

record_debug(a, f) == a

record_u64_first(a, f) ==
  IF f.name = "message_verbosity" /\ a.message_verbosity = None
  THEN [a EXCEPT !.message_verbosity = Some(f.u64)]
  ELSE a

record_u64(a, f) ==
  IF f.name = "message_verbosity"
  THEN [a EXCEPT !.message_verbosity = Some(f.u64)]
  ELSE a

record_str(a, f) ==
  IF f.name = "json"
  THEN [a EXCEPT !.json = Some(IdPrefix(a.id) \o StrFrom1(f.str))]
  ELSE a

\* the Visit method the framework calls for one field
Visit(a, f) ==
  CASE f.type = "u64" -> record_u64(a, f)
    [] f.type = "str" -> record_str(a, f)
    [] OTHER          -> record_debug(a, f)

VisitPanics(f) == f.type = "str" /\ f.name = "json" /\ StrFrom1Panics(f.str)

\* event.record(&mut vis): every field in order
RECURSIVE record(_, _)
record(a, fs) ==
  IF fs = << >> THEN a ELSE record(Visit(a, Head(fs)), Tail(fs))

recordPanics(fs) == \E i \in 1..Len(fs) : VisitPanics(fs[i])

IsTelemetry_any(e) == TRUE

\* event.metadata().target() == TELEMETRY_LOG_SPAN
IsTelemetry(e) == e.target = TELEMETRY_LOG_SPAN

ScopeFind_last(scope) ==
  LET M == {i \in 1..Len(scope) : scope[i].name = TELEMETRY_LOG_SPAN}
  IN IF M = {} THEN None
     ELSE Some(scope[CHOOSE i \in M : \A j \in M : j <= i])

ScopeFind_first(scope) ==
  IF scope = << >> THEN None ELSE Some(Head(scope))

\* ctx.scope().find(|x| x.name() == TELEMETRY_LOG_SPAN)
RECURSIVE ScopeFind(_)
ScopeFind(scope) ==
  IF scope = << >> THEN None
  ELSE IF Head(scope).name = TELEMETRY_LOG_SPAN THEN Some(Head(scope))
  ELSE ScopeFind(Tail(scope))

MapGet_any(m, k) ==
  IF m # {} THEN Some((CHOOSE e \in m : TRUE).sender) ELSE None

\* HashMap::get_mut
MapGet(m, k) ==
  IF \E e \in m : e.key = k
  THEN Some((CHOOSE e \in m : e.key = k).sender)
  ELSE None

MapInsert_keep(m, k, s) == m \cup {[key |-> k, sender |-> s]}

MapInsert_only(m, k, s) == {[key |-> k, sender |-> s]}

\* HashMap::insert
MapInsert(m, k, s) ==
  {e \in m : e.key # k} \cup {[key |-> k, sender |-> s]}

TryIntoU8_wrap(v) == Some(v % (U8Max + 1))

\* u64 -> u8 by try_into
TryIntoU8(v) == IF v <= U8Max THEN Some(v) ELSE None

TrySendOk_closed(c) == Len(queue[c]) < ChanCap(c)

TrySendOk_unbounded(c) == rxAlive[c]

Enqueue_twice(q, m) == Append(Append(q, m), m)

Enqueue_front(q, m) == << m >> \o q

\* mpsc::Sender::try_send: the outcome, and the buffer after it
TrySendOk(c) == rxAlive[c] /\ Len(queue[c]) < ChanCap(c)
Enqueue(q, m) == Append(q, m)

(* ---------------------------------------------------------------------- *)
(* Initial state: an empty registry, empty channels, every thread idle.    *)
(* ---------------------------------------------------------------------- *)
NoAttrs == TelemetryAttrsNew(0)

InitFor(T) ==
  /\ senders = {}
  /\ lock = 0
  /\ queue = [c \in Chans |-> << >>]
  /\ rxAlive = [c \in Chans |-> TRUE]
  /\ pc = [t \in T |-> "idle"]
  /\ ev = [t \in T |-> NoEvent]
  /\ id = [t \in T |-> None]
  /\ sender = [t \in T |-> None]
  /\ attrs = [t \in T |-> NoAttrs]
  /\ arg = [t \in T |-> << >>]
  /\ diag = [t \in T |-> << >>]
  /\ sent = [t \in T |-> << >>]
  /\ acq = [t \in T |-> 0]

\* a thread that is in no call of the layer (a panicked dispatch has ended)
Free(t) == pc[t] \in {"idle", "panicked"}

(* ---------------------------------------------------------------------- *)
(* TelemetryLayer::on_event, one action per step of thread t.              *)
(* ---------------------------------------------------------------------- *)
\* lines 43-49: the call, the target filter and the search of the scope
on_event(t, e) ==
  /\ Free(t)
  /\ ev' = [ev EXCEPT ![t] = e]
  /\ LET span == ScopeFind(e.scope) IN
       IF ~IsTelemetry(e) \/ span = None
       THEN /\ id' = [id EXCEPT ![t] = None]
            /\ pc' = [pc EXCEPT ![t] = "exit"]
       ELSE /\ id' = [id EXCEPT ![t] = Some(span[1].id)]
            /\ pc' = [pc EXCEPT ![t] = "lookup"]
  /\ sender' = [sender EXCEPT ![t] = None]
  /\ attrs' = [attrs EXCEPT ![t] = NoAttrs]
  /\ arg' = [arg EXCEPT ![t] = << >>]
  /\ diag' = [diag EXCEPT ![t] = << >>]
  /\ sent' = [sent EXCEPT ![t] = << >>]
  /\ acq' = [acq EXCEPT ![t] = 0]
  /\ UNCHANGED << senders, lock, queue, rxAlive >>

\* line 50: self.0.senders.0.lock().get_mut(&id); the guard lives on
lookup(t) ==
  /\ pc[t] = "lookup"
  /\ lock = 0
  /\ lock' = t
  /\ acq' = [acq EXCEPT ![t] = @ + 1]
  /\ sender' = [sender EXCEPT ![t] = MapGet(senders, id[t][1])]
  /\ pc' = [pc EXCEPT ![t] =
              IF MapGet(senders, id[t][1]) = None THEN "trace" ELSE "record"]
  /\ UNCHANGED << senders, queue, rxAlive, ev, id, attrs, arg, diag, sent >>

\* lines 51-53: the attributes are decoded from the fields
decode(t) ==
  /\ pc[t] = "record"
  /\ IF recordPanics(ev[t].fields)
     THEN /\ pc' = [pc EXCEPT ![t] = "unwind"]
          /\ attrs' = attrs
     ELSE /\ pc' = [pc EXCEPT ![t] = "match"]
          /\ attrs' = [attrs EXCEPT ![t] =
                         record(TelemetryAttrsNew(id[t][1]), ev[t].fields)]
  /\ UNCHANGED << senders, lock, queue, rxAlive, ev, id, sender, arg, diag,
                  sent, acq >>

deliver_blocking(t) ==
  /\ pc[t] = "match"
  /\ LET a == attrs[t]
         c == sender[t][1]
     IN IF a.message_verbosity = None \/ a.json = None
        THEN /\ pc' = [pc EXCEPT ![t] = "unwind"]
             /\ UNCHANGED << queue, sent >>
        ELSE IF TryIntoU8(a.message_verbosity[1]) = None
        THEN /\ pc' = [pc EXCEPT ![t] = "unwind"]
             /\ UNCHANGED << queue, sent >>
        ELSE LET m == << TryIntoU8(a.message_verbosity[1])[1], a.json[1] >> IN
             /\ TrySendOk(c)
             /\ queue' = [queue EXCEPT ![c] = Enqueue(@, m)]
             /\ sent' = [sent EXCEPT ![t] = Append(@, << c, m >>)]
             /\ pc' = [pc EXCEPT ![t] = "exit"]
  /\ UNCHANGED << senders, lock, rxAlive, ev, id, sender, attrs, arg, diag,
                  acq >>

\* lines 55-75: the match, the conversion to u8 and try_send
deliver(t) ==
  /\ pc[t] = "match"
  /\ LET a == attrs[t]
         c == sender[t][1]
     IN IF a.message_verbosity = None \/ a.json = None
        THEN /\ pc' = [pc EXCEPT ![t] = "unwind"]
             /\ UNCHANGED << queue, sent >>
        ELSE IF TryIntoU8(a.message_verbosity[1]) = None
        THEN /\ pc' = [pc EXCEPT ![t] = "unwind"]
             /\ UNCHANGED << queue, sent >>
        ELSE LET m == << TryIntoU8(a.message_verbosity[1])[1], a.json[1] >> IN
             IF TrySendOk(c)
             THEN /\ queue' = [queue EXCEPT ![c] = Enqueue(@, m)]
                  /\ sent' = [sent EXCEPT ![t] = Append(@, << c, m >>)]
                  /\ pc' = [pc EXCEPT ![t] = "exit"]
             ELSE /\ pc' = [pc EXCEPT ![t] = "warn"]
                  /\ UNCHANGED << queue, sent >>
  /\ UNCHANGED << senders, lock, rxAlive, ev, id, sender, attrs, arg, diag,
                  acq >>

warn_evict(t) ==
  /\ pc[t] = "warn"
  /\ diag' = [diag EXCEPT ![t] = Append(@, "warn")]
  /\ pc' = [pc EXCEPT ![t] = "exit"]
  /\ senders' = {e \in senders : e.sender # sender[t][1]}
  /\ UNCHANGED << lock, queue, rxAlive, ev, id, sender, attrs, arg, sent,
                  acq >>

\* lines 67-71: log::warn!
warn(t) ==
  /\ pc[t] = "warn"
  /\ diag' = [diag EXCEPT ![t] = Append(@, "warn")]
  /\ pc' = [pc EXCEPT ![t] = "exit"]
  /\ UNCHANGED << senders, lock, queue, rxAlive, ev, id, sender, attrs, arg,
                  sent, acq >>

\* line 77: log::trace!
trace(t) ==
  /\ pc[t] = "trace"
  /\ diag' = [diag EXCEPT ![t] = Append(@, "trace")]
  /\ pc' = [pc EXCEPT ![t] = "exit"]
  /\ UNCHANGED << senders, lock, queue, rxAlive, ev, id, sender, attrs, arg,
                  sent, acq >>

GuardDropped_leak(t) == lock

GuardDropped_poison(t) ==
  IF pc[t] = "unwind" THEN lock ELSE IF lock = t THEN 0 ELSE lock

\* the MutexGuard of line 50 goes out of scope: the lock after that
GuardDropped(t) == IF lock = t THEN 0 ELSE lock

\* what a thread keeps once its call has ended
Cleared(t) ==
  /\ ev' = [ev EXCEPT ![t] = NoEvent]
  /\ id' = [id EXCEPT ![t] = None]
  /\ sender' = [sender EXCEPT ![t] = None]
  /\ attrs' = [attrs EXCEPT ![t] = NoAttrs]
  /\ arg' = [arg EXCEPT ![t] = << >>]
  /\ diag' = [diag EXCEPT ![t] = << >>]
  /\ sent' = [sent EXCEPT ![t] = << >>]
  /\ acq' = [acq EXCEPT ![t] = 0]

\* lines 45, 78-80: on_event returns; the guard of line 50, if taken, drops
return(t) ==
  /\ pc[t] = "exit"
  /\ lock' = GuardDropped(t)
  /\ pc' = [pc EXCEPT ![t] = "idle"]
  /\ Cleared(t)
  /\ UNCHANGED << senders, queue, rxAlive >>

\* lines 64, 74, 118: the panic unwinds out of on_event and drops the guard
unwind(t) ==
  /\ pc[t] = "unwind"
  /\ lock' = GuardDropped(t)
  /\ pc' = [pc EXCEPT ![t] = "panicked"]
  /\ Cleared(t)
  /\ UNCHANGED << senders, queue, rxAlive >>

(* ---------------------------------------------------------------------- *)
(* Senders::insert.                                                        *)
(* ---------------------------------------------------------------------- *)
\* line 130: the call
insert(t, k, s) ==
  /\ Free(t)
  /\ pc' = [pc EXCEPT ![t] = "insert"]
  /\ arg' = [arg EXCEPT ![t] = << k, s >>]
  /\ UNCHANGED << senders, lock, queue, rxAlive, ev, id, sender, attrs, diag,
                  sent, acq >>

\* lines 131-132: self.0.lock()
insert_lock(t) ==
  /\ pc[t] = "insert"
  /\ lock = 0
  /\ lock' = t
  /\ pc' = [pc EXCEPT ![t] = "inserting"]
  /\ UNCHANGED << senders, queue, rxAlive, ev, id, sender, attrs, arg, diag,
                  sent, acq >>

\* lines 133-134: the map insert; the guard drops at the end of the statement
insert_write(t) ==
  /\ pc[t] = "inserting"
  /\ senders' = MapInsert(senders, arg[t][1], arg[t][2])
  /\ lock' = 0
  /\ pc' = [pc EXCEPT ![t] = "idle"]
  /\ arg' = [arg EXCEPT ![t] = << >>]
  /\ UNCHANGED << queue, rxAlive, ev, id, sender, attrs, diag, sent, acq >>

(* ---------------------------------------------------------------------- *)
(* The far end of a channel (external): it takes the head, or goes away.   *)
(* ---------------------------------------------------------------------- *)
recv(c) ==
  /\ rxAlive[c]
  /\ queue[c] # << >>
  /\ queue' = [queue EXCEPT ![c] = Tail(@)]
  /\ UNCHANGED << senders, lock, rxAlive, pc, ev, id, sender, attrs, arg,
                  diag, sent, acq >>

drop_receiver(c) ==
  /\ rxAlive[c]
  /\ rxAlive' = [rxAlive EXCEPT ![c] = FALSE]
  /\ queue' = [queue EXCEPT ![c] = << >>]
  /\ UNCHANGED << senders, lock, pc, ev, id, sender, attrs, arg, diag, sent,
                  acq >>

(* ---------------------------------------------------------------------- *)
(* Specifications.                                                         *)
(* ---------------------------------------------------------------------- *)
\* Spec: one thread emits any event of Events while another thread, the
\* owner of the connections, calls insert; the consumers act at any time
Emitters == {1}
Registrars == {2}

Init == InitFor(Emitters \cup Registrars)

Next ==
  \/ \E t \in Emitters : \E e \in Events : on_event(t, e)
  \/ \E t \in Registrars : \E k \in Keys : \E s \in Chans : insert(t, k, s)
  \/ \E t \in Threads : lookup(t)
  \/ \E t \in Threads : decode(t)
  \/ \E t \in Threads : deliver(t)
  \/ \E t \in Threads : warn(t)
  \/ \E t \in Threads : trace(t)
  \/ \E t \in Threads : return(t)
  \/ \E t \in Threads : unwind(t)
  \/ \E t \in Threads : insert_lock(t)
  \/ \E t \in Threads : insert_write(t)
  \/ \E c \in Chans : recv(c)
  \/ \E c \in Chans : drop_receiver(c)

Spec == Init /\ [][Next]_vars

\* SpecConc: NThreads threads, each emitting well-formed telemetry events or
\* calling insert; each key has a channel of its own
ConcEvents ==
  { [target |-> TELEMETRY_LOG_SPAN, scope |-> << TelSpan(1) >>,
     fields |-> << U64Field("message_verbosity", 255),
                   StrField("json", JsonHello) >>],
    [target |-> TELEMETRY_LOG_SPAN, scope |-> << TelSpan(1) >>,
     fields |-> << U64Field("message_verbosity", 0),
                   StrField("json", JsonHello) >>],
    [target |-> TELEMETRY_LOG_SPAN, scope |-> << TelSpan(12) >>,
     fields |-> << U64Field("message_verbosity", 255),
                   StrField("json", JsonHello) >>] }

ConcInserts == { << 1, "A" >>, << 12, "B" >> }

InitConc == InitFor(1..NThreads)

NextConc ==
  \/ \E t \in Threads : \E e \in ConcEvents : on_event(t, e)
  \/ \E t \in Threads : \E a \in ConcInserts : insert(t, a[1], a[2])
  \/ \E t \in Threads : lookup(t)
  \/ \E t \in Threads : decode(t)
  \/ \E t \in Threads : deliver(t)
  \/ \E t \in Threads : warn(t)
  \/ \E t \in Threads : trace(t)
  \/ \E t \in Threads : return(t)
  \/ \E t \in Threads : insert_lock(t)
  \/ \E t \in Threads : insert_write(t)
  \/ \E c \in Chans : recv(c)

SpecConc == InitConc /\ [][NextConc]_vars

\* SpecLive: NThreads threads that emit a well-formed event or an event
\* without json for key 1, or register channel B at key 1, under fair
\* scheduling: a thread that can take its next step takes it (WF), and a
\* thread waiting for the registry mutex gets it if it is free again and
\* again (SF: parking_lot hands the lock over to a waiter after a bounded
\* time).  No fairness is asked of the callers or of the consumers of the
\* channels.
LiveEvents ==
  { [target |-> TELEMETRY_LOG_SPAN, scope |-> << TelSpan(1) >>,
     fields |-> << U64Field("message_verbosity", 255),
                   StrField("json", JsonHello) >>],
    [target |-> TELEMETRY_LOG_SPAN, scope |-> << TelSpan(1) >>,
     fields |-> << U64Field("message_verbosity", 255) >>] }

LiveInserts == { << 1, "B" >> }

NextLive ==
  \/ \E t \in Threads : \E e \in LiveEvents : on_event(t, e)
  \/ \E t \in Threads : \E a \in LiveInserts : insert(t, a[1], a[2])
  \/ \E t \in Threads : lookup(t)
  \/ \E t \in Threads : decode(t)
  \/ \E t \in Threads : deliver(t)
  \/ \E t \in Threads : warn(t)
  \/ \E t \in Threads : trace(t)
  \/ \E t \in Threads : return(t)
  \/ \E t \in Threads : unwind(t)
  \/ \E t \in Threads : insert_lock(t)
  \/ \E t \in Threads : insert_write(t)
  \/ \E c \in Chans : recv(c)

\* the steps of thread t that need no lock, and the two that take it
Proceed(t) ==
  \/ decode(t) \/ deliver(t) \/ warn(t) \/ trace(t) \/ return(t)
  \/ unwind(t) \/ insert_write(t)
Acquire(t) == lookup(t) \/ insert_lock(t)

FairThreads ==
  \A t \in 1..NThreads : WF_vars(Proceed(t)) /\ SF_vars(Acquire(t))

SpecLive == InitConc /\ [][NextLive]_vars /\ FairThreads

\* SpecDispatch: one thread dispatches events whose scope is any sequence of
\* distinct spans up to MaxScope, or whose fields are any sequence up to
\* MaxFields of the fields of FieldPool, against an empty or a filled
\* registry; the behaviours are followed up to their first delivery
SeqsUpTo(S, n) == UNION {[1..k -> S] : k \in 0..n}

SpanPool == {TelSpan(1), TelSpan(12), OtherSpan}

DispatchScopes ==
  {s \in SeqsUpTo(SpanPool, MaxScope) :
     \A i \in 1..Len(s) : \A j \in 1..Len(s) : i # j => s[i] # s[j]}

\* json values that are not an object:  {}  and  [1]  and the empty string
JsonEmptyObject == << "{", "}" >>
JsonArray == << "[", "1", "]" >>

FieldPool ==
  { U64Field("message_verbosity", 3), U64Field("message_verbosity", 255),
    U64Field("message_verbosity", 256), U64Field("message_verbosity", 511),
    StrField("message_verbosity", << "3" >>),
    StrField("json", JsonHello), StrField("json", JsonEmptyObject),
    StrField("json", JsonArray), StrField("json", << >>),
    U64Field("json", 7), U64Field("level", 9) }

DispatchFields == SeqsUpTo(FieldPool, MaxFields)

DispatchEvents ==
  [target : {TELEMETRY_LOG_SPAN}, scope : DispatchScopes,
   fields : {<< U64Field("message_verbosity", 3),
                StrField("json", JsonHello) >>}]
  \cup
  [target : {TELEMETRY_LOG_SPAN}, scope : {<< TelSpan(12) >>},
   fields : DispatchFields]

DispatchRegistries ==
  { {}, {[key |-> 1, sender |-> "A"], [key |-> 12, sender |-> "B"]} }

InitDispatch ==
  /\ senders \in DispatchRegistries
  /\ lock = 0
  /\ queue = [c \in Chans |-> << >>]
  /\ rxAlive = [c \in Chans |-> TRUE]
  /\ pc = [t \in {1} |-> "idle"]
  /\ ev = [t \in {1} |-> NoEvent]
  /\ id = [t \in {1} |-> None]
  /\ sender = [t \in {1} |-> None]
  /\ attrs = [t \in {1} |-> NoAttrs]
  /\ arg = [t \in {1} |-> << >>]
  /\ diag = [t \in {1} |-> << >>]
  /\ sent = [t \in {1} |-> << >>]
  /\ acq = [t \in {1} |-> 0]

NextDispatch ==
  \/ \E t \in Threads :
       /\ Free(t)
       /\ \A c \in Chans : queue[c] = << >>
       /\ \E e \in DispatchEvents : on_event(t, e)
  \/ \E t \in Threads : lookup(t)
  \/ \E t \in Threads : decode(t)
  \/ \E t \in Threads : deliver(t)
  \/ \E t \in Threads : trace(t)
  \/ \E t \in Threads : return(t)
  \/ \E t \in Threads : unwind(t)

SpecDispatch == InitDispatch /\ [][NextDispatch]_vars

(* ---------------------------------------------------------------------- *)
(* Vocabulary of the properties, written from the event alone.             *)
(* ---------------------------------------------------------------------- *)
\* the positions of the fields of e with name n and type ty
FieldsAt(e, n, ty) ==
  {i \in 1..Len(e.fields) : e.fields[i].name = n /\ e.fields[i].type = ty}

\* the marker spans in the scope of e
MarkerSpans(e) ==
  {i \in 1..Len(e.scope) : e.scope[i].name = TELEMETRY_LOG_SPAN}

\* e is a call in progress with the reserved target
TelemetryEvent(e) == e # NoEvent /\ e.target = TELEMETRY_LOG_SPAN

\* e lacks an unsigned message_verbosity or a string json
MissingFields(e) ==
  \/ FieldsAt(e, "message_verbosity", "u64") = {}
  \/ FieldsAt(e, "json", "str") = {}

\* the verbosity and the json value a well-formed event carries
VerbosityOf(e) ==
  e.fields[CHOOSE i \in FieldsAt(e, "message_verbosity", "u64") : TRUE].u64
JsonOf(e) == e.fields[CHOOSE i \in FieldsAt(e, "json", "str") : TRUE].str
SpanIdOf(e) == e.scope[CHOOSE i \in MarkerSpans(e) : TRUE].id

\* a telemetry event in one telemetry span, with one verbosity in 0..255 and
\* one json value that starts with a brace
WellFormed(e) ==
  /\ TelemetryEvent(e)
  /\ Cardinality(MarkerSpans(e)) = 1
  /\ Cardinality(FieldsAt(e, "message_verbosity", "u64")) = 1
  /\ Cardinality(FieldsAt(e, "json", "str")) = 1
  /\ VerbosityOf(e) \in 0..255
  /\ JsonOf(e) # << >>
  /\ Head(JsonOf(e)) = "{"

\* the decimal text of the span ids in use
DecimalText(i) == IF i = 1 THEN << "1" >> ELSE << "1", "2" >>

\* {"id":I, followed by the rest of the json value
ExpectedPayload(i, json) ==
  << "{", "\"", "i", "d", "\"", ":" >> \o DecimalText(i) \o << "," >>
    \o Tail(json)

ExpectedMessage(e) ==
  << VerbosityOf(e), ExpectedPayload(SpanIdOf(e), JsonOf(e)) >>

\* channel c is what the registry holds at key k
RegisteredIn(m, k, c) == \E en \in m : en.key = k /\ en.sender = c
RegisteredAt(k, c) == RegisteredIn(senders, k, c)
Registered(k) == \E c \in Chans : RegisteredAt(k, c)

\* this step is a step of thread t
StepOf(t) == pc'[t] # pc[t]

(* ---------------------------------------------------------------------- *)
(* C1                                                                      *)
(* ---------------------------------------------------------------------- *)
\* C1: a well-formed telemetry event in a span with id I, verbosity v and
\* json '{' + rest, delivered while a sender with free capacity is
\* registered at I, appends exactly the message (v, '{"id":I,' + rest) to
\* the tail of that channel and changes no other channel; no call enqueues
\* more than one message.
C1_Delivered ==
  /\ [](\A t \in Threads : Len(sent[t]) <= 1)
  /\ [][\A t \in Threads : \A c \in Chans :
          ( /\ pc[t] = "match"
            /\ StepOf(t)
            /\ WellFormed(ev[t])
            /\ RegisteredAt(SpanIdOf(ev[t]), c)
            /\ rxAlive[c]
            /\ Len(queue[c]) < ChanCap(c) )
          => /\ queue' = [queue EXCEPT ![c] = Append(@, ExpectedMessage(ev[t]))]
             /\ sent'[t] = << << c, ExpectedMessage(ev[t]) >> >>
             /\ pc'[t] = "exit"
             /\ UNCHANGED << senders, rxAlive >>]_vars

\* a delivered message sits behind an older one at the tail of channel A
C1_Witness ==
  /\ pc[1] = "exit"
  /\ WellFormed(ev[1])
  /\ sent[1] = << << "A", ExpectedMessage(ev[1]) >> >>
  /\ SpanIdOf(ev[1]) = 12
  /\ Len(queue["A"]) = 2
  /\ queue["A"][2] = ExpectedMessage(ev[1])
  /\ queue["A"][1] # queue["A"][2]

(* ---------------------------------------------------------------------- *)
(* C2                                                                      *)
(* ---------------------------------------------------------------------- *)
\* a call in progress whose event has another target than the marker
C2_Irrelevant(e) == e # NoEvent /\ e.target # TELEMETRY_LOG_SPAN

\* C2: a call of on_event with a target other than the marker never locks
\* the registry, looks nothing up, enqueues nothing, logs nothing, and none
\* of its steps changes the registry, a channel or the lock.
C2_NoOp ==
  /\ [](\A t \in Threads :
          C2_Irrelevant(ev[t])
          => /\ pc[t] = "exit"
             /\ acq[t] = 0
             /\ lock # t
             /\ sender[t] = None
             /\ sent[t] = << >>
             /\ diag[t] = << >>)
  /\ [][\A t \in Threads :
          (StepOf(t) /\ (C2_Irrelevant(ev[t]) \/ C2_Irrelevant(ev'[t])))
          => /\ UNCHANGED << senders, queue, rxAlive, lock >>
             /\ pc'[t] \in {"exit", "idle"}]_vars

\* an event that would have been delivered had its target been the marker
C2_Witness ==
  /\ pc[1] = "exit"
  /\ C2_Irrelevant(ev[1])
  /\ WellFormed([ev[1] EXCEPT !.target = TELEMETRY_LOG_SPAN])
  /\ RegisteredAt(SpanIdOf(ev[1]), "A")
  /\ rxAlive["A"]
  /\ queue["A"] = << >>

(* ---------------------------------------------------------------------- *)
(* C3                                                                      *)
(* ---------------------------------------------------------------------- *)
\* a telemetry event in a telemetry span that lacks one of the two fields
C3_Malformed(e) ==
  TelemetryEvent(e) /\ MarkerSpans(e) # {} /\ MissingFields(e)

\* C3 as stated: a telemetry event that lacks message_verbosity or json
\* ends in the fatal condition and sends nothing, whether or not a sender
\* is registered for its routing key: its call never reaches the trace or
\* the normal return.
C3_FatalInEveryRegistryState ==
  \A t \in Threads :
    C3_Malformed(ev[t]) => pc[t] \notin {"trace", "exit"} /\ sent[t] = << >>

\* C3 amended: such an event sends nothing; when the lookup finds a sender
\* its call ends in the fatal condition, and when the lookup finds none it
\* logs one trace record and returns normally.
C3_FatalWhenRegistered ==
  /\ [](\A t \in Threads :
          C3_Malformed(ev[t])
          => /\ sent[t] = << >>
             /\ sender[t] # None
                  => pc[t] \in {"record", "match", "unwind"} /\ diag[t] = << >>
             /\ sender[t] = None => pc[t] \in {"lookup", "trace", "exit"}
             /\ pc[t] = "exit" => diag[t] = << "trace" >>)
  /\ [][\A t \in Threads :
          (StepOf(t) /\ C3_Malformed(ev[t]))
          => /\ UNCHANGED << senders, queue, rxAlive >>
             /\ pc[t] = "match" => pc'[t] = "unwind"
             /\ pc[t] = "unwind" => pc'[t] = "panicked"
             /\ pc[t] = "trace" => pc'[t] = "exit"
             /\ pc[t] = "exit" => pc'[t] = "idle"]_vars

\* the fatal condition is under way for an event without json, with a
\* sender registered whose channel has room
C3_Witness ==
  /\ pc[1] = "unwind"
  /\ C3_Malformed(ev[1])
  /\ FieldsAt(ev[1], "message_verbosity", "u64") # {}
  /\ sender[1] = Some("A")
  /\ rxAlive["A"]
  /\ queue["A"] = << >>

(* ---------------------------------------------------------------------- *)
(* C4                                                                      *)
(* ---------------------------------------------------------------------- *)
\* a telemetry event with no marker span in scope
C4_NoSpan(e) == TelemetryEvent(e) /\ MarkerSpans(e) = {}

\* C4 as stated: a telemetry event with no telemetry span in scope is
\* dropped with exactly one trace diagnostic, without a lookup or a send.
C4_DroppedWithOneTrace ==
  \A t \in Threads :
    (C4_NoSpan(ev[t]) /\ pc[t] = "exit")
    => diag[t] = << "trace" >> /\ acq[t] = 0 /\ sent[t] = << >>

\* C4 amended: such an event is dropped silently: no diagnostic, no lock,
\* no lookup, no enqueue, no fatal condition, nothing shared is changed.
C4_DroppedSilently ==
  /\ [](\A t \in Threads :
          C4_NoSpan(ev[t])
          => /\ pc[t] = "exit"
             /\ diag[t] = << >>
             /\ acq[t] = 0
             /\ lock # t
             /\ sender[t] = None
             /\ sent[t] = << >>)
  /\ [][\A t \in Threads :
          (StepOf(t) /\ (C4_NoSpan(ev[t]) \/ C4_NoSpan(ev'[t])))
          => /\ UNCHANGED << senders, queue, rxAlive, lock >>
             /\ pc'[t] \in {"exit", "idle"}]_vars

\* a complete telemetry event inside a span of another name, with senders
\* registered
C4_Witness ==
  /\ pc[1] = "exit"
  /\ C4_NoSpan(ev[1])
  /\ ev[1].scope # << >>
  /\ ~MissingFields(ev[1])
  /\ Registered(1)
  /\ Registered(12)

(* ---------------------------------------------------------------------- *)
(* C5                                                                      *)
(* ---------------------------------------------------------------------- *)
\* C5: a well-formed event for key I whose channel is at capacity is
\* dropped: the step that tries the send changes no channel, one warning is
\* logged, and the call goes on to return normally without waiting.
C5_Backpressure ==
  /\ [](\A t \in Threads :
          /\ pc[t] = "warn" => sent[t] = << >> /\ diag[t] = << >>
          /\ (pc[t] = "exit" /\ WellFormed(ev[t]) /\ sender[t] # None
                /\ sent[t] = << >>)
               => diag[t] = << "warn" >>
          /\ pc[t] = "match" => ENABLED deliver(t)
          /\ pc[t] = "warn" => ENABLED warn(t)
          /\ pc[t] = "exit" => ENABLED return(t))
  /\ [][\A t \in Threads : \A c \in Chans :
          ( /\ pc[t] = "match"
            /\ StepOf(t)
            /\ WellFormed(ev[t])
            /\ RegisteredAt(SpanIdOf(ev[t]), c)
            /\ rxAlive[c]
            /\ Len(queue[c]) >= ChanCap(c) )
          => /\ pc'[t] = "warn"
             /\ UNCHANGED << queue, senders, rxAlive, sent >>]_vars
  /\ [][\A t \in Threads :
          (pc[t] = "warn" /\ StepOf(t))
          => /\ pc'[t] = "exit"
             /\ diag'[t] = << "warn" >>
             /\ UNCHANGED << queue, senders, rxAlive, sent >>]_vars

\* the call returns after the warning while channel A is still full
C5_Witness ==
  /\ pc[1] = "exit"
  /\ WellFormed(ev[1])
  /\ diag[1] = << "warn" >>
  /\ sent[1] = << >>
  /\ RegisteredAt(SpanIdOf(ev[1]), "A")
  /\ rxAlive["A"]
  /\ Len(queue["A"]) = Cap

(* ---------------------------------------------------------------------- *)
(* C6                                                                      *)
(* ---------------------------------------------------------------------- *)
\* C6: the registry never holds two senders for one key; a completed
\* insert(k, s) leaves s as the only sender at k, the other keys and every
\* queue as they were, and changes nothing when s was at k already; a
\* channel grows only by a send of an event whose key it is registered at,
\* so a replaced sender receives nothing further.
C6_Replacement ==
  /\ [](\A e1 \in senders : \A e2 \in senders : e1.key = e2.key => e1 = e2)
  /\ [][\A t \in Threads :
          (pc[t] = "inserting" /\ StepOf(t))
          => /\ RegisteredIn(senders', arg[t][1], arg[t][2])
             /\ \A c \in Chans \ {arg[t][2]} : ~RegisteredIn(senders', arg[t][1], c)
             /\ \A k \in Keys \ {arg[t][1]} : \A c \in Chans :
                  RegisteredIn(senders', k, c) <=> RegisteredAt(k, c)
             /\ RegisteredAt(arg[t][1], arg[t][2]) => senders' = senders
             /\ UNCHANGED << queue, rxAlive >>]_vars
  /\ [][\A c \in Chans :
          Len(queue'[c]) > Len(queue[c])
          => \E t \in Threads :
               /\ pc[t] = "match"
               /\ StepOf(t)
               /\ RegisteredAt(id[t][1], c)
               /\ queue'[c] = Append(queue[c], sent'[t][1][2])]_vars

\* key 1 was moved from channel A to channel B: the old message is still
\* queued on A, which no key names any more, and the new one went to B
C6_Witness ==
  /\ pc[1] = "exit"
  /\ WellFormed(ev[1])
  /\ SpanIdOf(ev[1]) = 1
  /\ senders = {[key |-> 1, sender |-> "B"]}
  /\ queue["A"] = << ExpectedMessage(ev[1]) >>
  /\ queue["B"] = << ExpectedMessage(ev[1]) >>
  /\ sent[1] = << << "B", ExpectedMessage(ev[1]) >> >>

(* ---------------------------------------------------------------------- *)
(* C7                                                                      *)
(* ---------------------------------------------------------------------- *)
\* the value of a decimal digit
DigitValue(ch) ==
  CASE ch = "0" -> 0 [] ch = "1" -> 1 [] ch = "2" -> 2 [] ch = "3" -> 3
    [] ch = "4" -> 4 [] ch = "5" -> 5 [] ch = "6" -> 6 [] ch = "7" -> 7
    [] ch = "8" -> 8 [] ch = "9" -> 9

RECURSIVE DecimalValue(_)
DecimalValue(ds) ==
  IF ds = << >> THEN 0
  ELSE 10 * DecimalValue(SubSeq(ds, 1, Len(ds) - 1)) + DigitValue(ds[Len(ds)])

\* the number a payload carries as its first member, {"id":<number>,
PayloadId(p) ==
  LET comma == CHOOSE i \in 7..Len(p) :
                 p[i] = "," /\ \A j \in 7..(i - 1) : p[j] # ","
  IN DecimalValue(SubSeq(p, 7, comma - 1))

\* C7: with threads inserting under distinct keys while others dispatch
\* events for both keys, every message queued on the channel registered at
\* a key carries that key as its id; an insert that completed is in the
\* registry, and no entry is ever lost.
C7_Independent ==
  /\ [](\A en \in senders : \A i \in 1..Len(queue[en.sender]) :
          PayloadId(queue[en.sender][i][2]) = en.key)
  /\ [][\A k \in Keys :
          Registered(k) => \E c \in Chans : RegisteredIn(senders', k, c)]_vars
  /\ [][\A t \in Threads :
          (pc[t] = "inserting" /\ StepOf(t))
          => RegisteredIn(senders', arg[t][1], arg[t][2])]_vars

\* both keys are registered and have messages queued, while two threads
\* are in insert for different keys and a third is about to send
C7_Witness ==
  /\ RegisteredAt(1, "A")
  /\ RegisteredAt(12, "B")
  /\ queue["A"] # << >>
  /\ queue["B"] # << >>
  /\ pc[1] = "insert"
  /\ pc[2] = "insert"
  /\ arg[1][1] # arg[2][1]
  /\ pc[3] = "match"

(* ---------------------------------------------------------------------- *)
(* C8                                                                      *)
(* ---------------------------------------------------------------------- *)
\* C8 as stated: no thread holds the registry lock while it decodes the
\* fields, tries the enqueue, logs a diagnostic or raises the fatal
\* condition.
C8_LockOnlyForMapAccess ==
  \A t \in Threads :
    lock = t => pc[t] \notin {"record", "match", "warn", "trace", "unwind"}

\* C8 amended: a call locks the registry at most once; insert holds the
\* lock for its map write only; on_event holds it from the lookup until it
\* returns or unwinds, that is while it decodes, tries the enqueue, logs
\* and raises the fatal condition; outside a call no thread holds it.
C8_LockHeldToEndOfCall ==
  /\ lock \in Threads \cup {0}
  /\ \A t \in Threads :
       /\ acq[t] <= 1
       /\ lock = t <=>
            \/ pc[t] \in {"record", "match", "warn", "trace", "unwind",
                          "inserting"}
            \/ pc[t] = "exit" /\ acq[t] = 1

\* the emitter logs its warning with the lock held while insert waits
C8_Witness ==
  /\ lock = 1
  /\ pc[1] = "warn"
  /\ pc[2] = "insert"

(* ---------------------------------------------------------------------- *)
(* C9                                                                      *)
(* ---------------------------------------------------------------------- *)
\* the messages the events of SpecConc stand for
ConcMessages == {ExpectedMessage(e) : e \in ConcEvents}

\* C9: a queue changes only by a whole message appended at its tail by the
\* thread that holds the registry lock, or by the consumer taking its
\* head; so the queue is in the order of the sends under the lock.
C9_Fifo ==
  /\ [](\A c \in Chans : \A i \in 1..Len(queue[c]) :
          queue[c][i] \in ConcMessages)
  /\ [][\A c \in Chans :
          queue'[c] # queue[c]
          => \/ /\ queue[c] # << >>
                /\ queue'[c] = Tail(queue[c])
                /\ \A t \in Threads : ~StepOf(t)
             \/ \E t \in Threads :
                  /\ lock = t
                  /\ pc[t] = "match"
                  /\ StepOf(t)
                  /\ \A u \in Threads \ {t} : ~StepOf(u)
                  /\ queue'[c] = Append(queue[c], ExpectedMessage(ev[t]))]_vars

\* thread 1 has just queued its message behind a different one on channel
\* A while thread 2 waits for the lock with an event for the same key
C9_Witness ==
  /\ pc[1] = "exit"
  /\ sent[1] # << >>
  /\ Len(queue["A"]) = 2
  /\ queue["A"][2] = sent[1][1][2]
  /\ queue["A"][1] # queue["A"][2]
  /\ pc[2] = "lookup"
  /\ id[2] = Some(1)

(* ---------------------------------------------------------------------- *)
(* C10                                                                     *)
(* ---------------------------------------------------------------------- *)
\* C10: a dispatch that ends in the fatal condition has enqueued nothing,
\* none of its steps changes the registry or a channel, and when it has
\* unwound the lock is free, so a waiting insert can take it.
C10_FailureIsolation ==
  /\ [](\A t \in Threads :
          /\ pc[t] = "unwind" => sent[t] = << >>
          /\ pc[t] = "panicked" => lock # t
          /\ \A u \in Threads :
               (pc[t] = "panicked" /\ lock = 0 /\ pc[u] = "insert")
               => ENABLED insert_lock(u))
  /\ [][\A t \in Threads :
          (StepOf(t) /\ pc'[t] \in {"lookup", "record", "trace", "match",
                                    "unwind", "panicked"})
          => UNCHANGED << senders, queue, rxAlive >>]_vars
  /\ [][\A t \in Threads :
          (pc[t] = "unwind" /\ StepOf(t))
          => pc'[t] = "panicked" /\ lock = t /\ lock' = 0]_vars

\* after the fatal condition of thread 1 the registry still has its entry,
\* channel A its message, and thread 2 has taken the lock for an insert
C10_Witness ==
  /\ pc[1] = "panicked"
  /\ lock = 2
  /\ pc[2] = "inserting"
  /\ RegisteredAt(1, "A")
  /\ queue["A"] # << >>

(* ---------------------------------------------------------------------- *)
(* C11                                                                     *)
(* ---------------------------------------------------------------------- *)
\* the last field of e with name n and type ty
LastAt(e, n, ty) ==
  CHOOSE i \in FieldsAt(e, n, ty) : \A j \in FieldsAt(e, n, ty) : j <= i

\* e is a telemetry event in a telemetry span whose decoded verbosity, the
\* last unsigned message_verbosity, exceeds 255
C11_Above255(e) ==
  /\ TelemetryEvent(e)
  /\ MarkerSpans(e) # {}
  /\ FieldsAt(e, "message_verbosity", "u64") # {}
  /\ e.fields[LastAt(e, "message_verbosity", "u64")].u64 > 255

\* C11 as stated: for every telemetry event whose message_verbosity exceeds
\* 255 the dispatch ends in the fatal condition (it never reaches its normal
\* return) and nothing is enqueued.
C11_FatalForEveryEventAbove255 ==
  \A t \in Threads :
    C11_Above255(ev[t]) => pc[t] # "exit" /\ sent[t] = << >>

\* C11: the verbosity is carried as decoded, without truncation: a telemetry
\* event whose verbosity exceeds 255 never enqueues anything; when a sender
\* is registered for its key at the lookup the dispatch ends in the fatal
\* condition, at the latest at the conversion to u8, and it returns normally
\* only after the one trace record of a key without sender; every enqueued
\* verbosity is in 0..255 and equals the decoded value.
C11_VerbosityRange ==
  /\ [](\A t \in Threads :
          C11_Above255(ev[t])
          => /\ sent[t] = << >>
             /\ sender[t] # None => pc[t] \in {"record", "match", "unwind"}
             /\ pc[t] = "exit" => diag[t] = << "trace" >> /\ sender[t] = None)
  /\ [](\A t \in Threads :
          sent[t] # << >>
          => /\ FieldsAt(ev[t], "message_verbosity", "u64") # {}
             /\ sent[t][1][2][1] =
                  ev[t].fields[LastAt(ev[t], "message_verbosity", "u64")].u64
             /\ sent[t][1][2][1] \in 0..255)
  /\ [][\A t \in Threads :
          (pc[t] = "match" /\ StepOf(t) /\ C11_Above255(ev[t]))
          => pc'[t] = "unwind" /\ UNCHANGED queue]_vars

\* the conversion of 511 has failed for an event with both fields decoded
\* and a sender with room registered for its key
C11_Witness ==
  /\ pc[1] = "unwind"
  /\ sender[1] = Some("B")
  /\ attrs[1].message_verbosity = Some(511)
  /\ attrs[1].json # None
  /\ queue["B"] = << >>

(* ---------------------------------------------------------------------- *)
(* C12                                                                     *)
(* ---------------------------------------------------------------------- *)
\* the dispatch of thread t has looked the key of a well-formed event up and
\* found no sender
C12_NoSender(t) ==
  /\ WellFormed(ev[t])
  /\ acq[t] = 1
  /\ sender[t] = None

\* C12: a well-formed telemetry event whose key has no sender in the
\* registry when it is looked up writes exactly one trace record, enqueues
\* nothing, changes no channel and no registry entry, never enters the fatal
\* condition and returns normally.
C12_DroppedWithTrace ==
  /\ [][\A t \in Threads :
          ( /\ pc[t] = "lookup"
            /\ StepOf(t)
            /\ WellFormed(ev[t])
            /\ ~Registered(SpanIdOf(ev[t])) )
          => /\ pc'[t] = "trace"
             /\ sender'[t] = None
             /\ acq'[t] = 1]_vars
  /\ [](\A t \in Threads :
          C12_NoSender(t)
          => /\ pc[t] \in {"trace", "exit"}
             /\ sent[t] = << >>
             /\ pc[t] = "trace" => diag[t] = << >> /\ ENABLED trace(t)
             /\ pc[t] = "exit" => diag[t] = << "trace" >> /\ ENABLED return(t))
  /\ [][\A t \in Threads :
          (C12_NoSender(t) /\ StepOf(t))
          => /\ pc'[t] = (IF pc[t] = "trace" THEN "exit" ELSE "idle")
             /\ UNCHANGED << senders, queue, rxAlive >>]_vars

\* an event for key 12 has been dropped with its trace record while only
\* key 1 has a sender
C12_Witness ==
  /\ pc[1] = "exit"
  /\ C12_NoSender(1)
  /\ SpanIdOf(ev[1]) = 12
  /\ diag[1] = << "trace" >>
  /\ RegisteredAt(1, "A")
  /\ ~Registered(12)
  /\ queue["A"] # << >>

(* ---------------------------------------------------------------------- *)
(* C13                                                                     *)
(* ---------------------------------------------------------------------- *)
\* the number of messages buffered in the channels of S, for the queues q
RECURSIVE QueuedIn(_, _)
QueuedIn(q, S) ==
  IF S = {} THEN 0
  ELSE LET c == CHOOSE x \in S : TRUE
       IN Len(q[c]) + QueuedIn(q, S \ {c})

\* this step belongs to a dispatch of on_event by thread t
DispatchStep(t) ==
  /\ StepOf(t)
  /\ \/ pc[t] \in {"lookup", "record", "match", "warn", "trace", "exit",
                   "unwind"}
     \/ Free(t) /\ pc'[t] \in {"lookup", "exit"}

\* C13: every step of a dispatch either leaves all channels as they are or
\* is its one send: the try_send step, which appends one message to the
\* channel that was registered under the resolved key when the key was
\* looked up and to no other; the total number of queued messages grows by
\* one there and a dispatch sends at most once, and not at all when it is
\* irrelevant, without span, without sender, rejected by the channel or
\* fatal.
C13_AtMostOneSend ==
  /\ [][\A t \in Threads :
          DispatchStep(t)
          => \/ UNCHANGED queue /\ sent'[t] = sent[t]
             \/ /\ pc[t] = "match"
                /\ sent[t] = << >>
                /\ Len(sent'[t]) = 1
                /\ sent'[t][1][1] = sender[t][1]
                /\ RegisteredAt(id[t][1], sender[t][1])
                /\ queue' = [queue EXCEPT ![sender[t][1]] =
                               Append(@, sent'[t][1][2])]
                /\ QueuedIn(queue', Chans) = QueuedIn(queue, Chans) + 1
             \/ pc[t] \in {"exit", "unwind"} /\ UNCHANGED queue]_vars
  /\ [][\A t \in Threads :
          (pc[t] = "lookup" /\ StepOf(t))
          => \/ sender'[t] = None /\ ~Registered(id[t][1])
             \/ sender'[t] # None /\ RegisteredAt(id[t][1], sender'[t][1])]_vars
  /\ [](\A t \in Threads :
          /\ Len(sent[t]) <= 1
          /\ ( \/ pc[t] \in {"lookup", "record", "match", "warn", "trace",
                             "unwind"}
               \/ diag[t] # << >>
               \/ acq[t] = 0 )
             => sent[t] = << >>)

\* the one message of a dispatch for key 12 is on channel B, registered at
\* 12, and channel A, registered at key 1, has none
C13_Witness ==
  /\ pc[1] = "exit"
  /\ id[1] = Some(12)
  /\ Len(sent[1]) = 1
  /\ sent[1][1][1] = "B"
  /\ RegisteredAt(12, "B")
  /\ RegisteredAt(1, "A")
  /\ queue["A"] = << >>
  /\ Len(queue["B"]) = 1

(* ---------------------------------------------------------------------- *)
(* C14                                                                     *)
(* ---------------------------------------------------------------------- *)
\* C14: no step of a dispatch of on_event changes the registry, whether the
\* event is delivered, dropped, rejected by a full or disconnected channel
\* or fatal; the registry changes only by the write of an insert call, which
\* sets the entry of its key.
C14_OnlyInsertWrites ==
  /\ [][\A t \in Threads : DispatchStep(t) => UNCHANGED senders]_vars
  /\ [][\A t \in Threads : \A c \in Chans :
          (pc[t] = "match" /\ StepOf(t) /\ sender[t] = Some(c) /\ ~TrySendOk(c))
          => /\ RegisteredIn(senders', id[t][1], c)
             /\ UNCHANGED senders]_vars
  /\ [][senders' # senders
        => \E t \in Threads :
             /\ pc[t] = "inserting"
             /\ pc'[t] = "idle"
             /\ senders' = {e \in senders : e.key # arg[t][1]}
                             \cup {[key |-> arg[t][1], sender |-> arg[t][2]]}]_vars

\* a dispatch was rejected by channel A, whose consumer has gone away, and
\* has logged its warning: both entries of the registry are still there
C14_Witness ==
  /\ pc[1] = "exit"
  /\ diag[1] = << "warn" >>
  /\ sender[1] = Some("A")
  /\ ~rxAlive["A"]
  /\ RegisteredAt(id[1][1], "A")
  /\ Cardinality(senders) = 2

(* ---------------------------------------------------------------------- *)
(* C15                                                                     *)
(* ---------------------------------------------------------------------- *)
\* thread t can take the next step of its call in the current state
CanStep(t) == ENABLED (Proceed(t) \/ Acquire(t))

\* C15: every started on_event or insert call eventually ends, by a return
\* or by the fatal condition, whatever the consumers do; a thread inside a
\* call can always take its next step, except while it waits for the
\* registry mutex, and then the holder of the mutex is inside a call and can
\* take its next step: no thread waits for channel capacity or a consumer.
C15_Progress ==
  /\ \A t \in 1..NThreads : (~Free(t)) ~> Free(t)
  /\ [](\A t \in Threads :
          ~Free(t)
          => \/ CanStep(t)
             \/ /\ pc[t] \in {"lookup", "insert"}
                /\ lock \in Threads \ {t}
                /\ ~Free(lock)
                /\ CanStep(lock))

\* thread 1 holds the mutex in front of the full channel B, whose consumer
\* takes nothing, while thread 2 waits to look up and thread 3 to insert
C15_Witness ==
  /\ pc[1] = "match"
  /\ sender[1] = Some("B")
  /\ Len(queue["B"]) = ChanCap("B")
  /\ lock = 1
  /\ pc[2] = "lookup"
  /\ pc[3] = "insert"

(* ---------------------------------------------------------------------- *)
(* C16                                                                     *)
(* ---------------------------------------------------------------------- *)
\* the first marker span in the order the scope yields the spans
FirstMarker(e) ==
  CHOOSE i \in MarkerSpans(e) : \A j \in MarkerSpans(e) : i <= j

\* C16: the key of a telemetry event in a telemetry span is the id of the
\* first span of its scope that has the marker name, whatever spans with
\* other names come before it; a message it sends goes to the channel
\* registered at that id and carries that id, and no step of the dispatch
\* changes the channel registered at the id of any other span of the scope.
C16_FirstMarkerSpan ==
  /\ [](\A t \in Threads :
          (TelemetryEvent(ev[t]) /\ MarkerSpans(ev[t]) # {})
          => /\ id[t] = Some(ev[t].scope[FirstMarker(ev[t])].id)
             /\ \A i \in 1..(FirstMarker(ev[t]) - 1) :
                  ev[t].scope[i].name # TELEMETRY_LOG_SPAN
             /\ sent[t] # << >>
                => /\ RegisteredAt(ev[t].scope[FirstMarker(ev[t])].id,
                                   sent[t][1][1])
                   /\ PayloadId(sent[t][1][2][2])
                        = ev[t].scope[FirstMarker(ev[t])].id)
  /\ [][\A t \in Threads : \A c \in Chans :
          ( /\ DispatchStep(t)
            /\ ev'[t] # NoEvent
            /\ MarkerSpans(ev'[t]) # {}
            /\ ~RegisteredAt(ev'[t].scope[FirstMarker(ev'[t])].id, c) )
          => queue'[c] = queue[c]]_vars

\* with the spans 12 and 1 in scope, in that order, the message is on the
\* channel of key 12 and the channel of key 1 is empty
C16_Witness ==
  /\ pc[1] = "exit"
  /\ ev[1].scope = << TelSpan(12), TelSpan(1) >>
  /\ RegisteredAt(12, "B")
  /\ RegisteredAt(1, "A")
  /\ Len(sent[1]) = 1
  /\ sent[1][1][1] = "B"
  /\ queue["A"] = << >>

(* ---------------------------------------------------------------------- *)
(* C17                                                                     *)
(* ---------------------------------------------------------------------- *)
\* C17: when the fields of an event have been visited, message_verbosity is
\* the value of the last unsigned field named message_verbosity (none if
\* there is no such field), json is the rewrite of the last string field
\* named json (none if there is no such field), whatever other fields the
\* event has; a field with another name or another type of value changes
\* nothing and stops nothing: the visit fails only on an empty json string.
C17_LastValueWins ==
  /\ [](\A t \in Threads :
          pc[t] = "match"
          => /\ attrs[t].id = id[t][1]
             /\ attrs[t].message_verbosity =
                  ( IF FieldsAt(ev[t], "message_verbosity", "u64") = {}
                    THEN None
                    ELSE Some(ev[t].fields[
                           LastAt(ev[t], "message_verbosity", "u64")].u64) )
             /\ attrs[t].json =
                  ( IF FieldsAt(ev[t], "json", "str") = {}
                    THEN None
                    ELSE Some(ExpectedPayload(id[t][1],
                           ev[t].fields[LastAt(ev[t], "json", "str")].str)) ))
  /\ [][\A t \in Threads :
          (pc[t] = "record" /\ StepOf(t))
          => \/ pc'[t] = "match"
             \/ /\ pc'[t] = "unwind"
                /\ \E i \in FieldsAt(ev[t], "json", "str") :
                     ev[t].fields[i].str = << >>]_vars

\* verbosity 255 was overwritten by 3 and the json given as an integer was
\* ignored
C17_Witness ==
  /\ pc[1] = "match"
  /\ ev[1].fields = << U64Field("message_verbosity", 255),
                       U64Field("message_verbosity", 3),
                       U64Field("json", 7) >>
  /\ attrs[1].message_verbosity = Some(3)
  /\ attrs[1].json = None

(* ---------------------------------------------------------------------- *)
(* C18                                                                     *)
(* ---------------------------------------------------------------------- *)
\* C18: a consumer that has gone away stays away and its channel holds
\* nothing; a well-formed event whose key is registered with such a channel
\* is found at the lookup, rejected at the send, which changes neither the
\* channels nor the registry, logs one warning and returns normally; the
\* entry of a key changes only by the write of an insert for that key, and
\* once a sender with a live consumer and room is registered at the key,
\* the message of a well-formed event is enqueued on its channel.
C18_DeadChannel ==
  /\ [][\A c \in Chans : ~rxAlive[c] => ~rxAlive'[c]]_vars
  /\ [](\A c \in Chans : ~rxAlive[c] => queue[c] = << >>)
  /\ [][\A t \in Threads : \A c \in Chans :
          ( /\ pc[t] = "lookup"
            /\ StepOf(t)
            /\ RegisteredAt(id[t][1], c)
            /\ ~rxAlive[c] )
          => sender'[t] = Some(c) /\ pc'[t] = "record"]_vars
  /\ [][\A t \in Threads : \A c \in Chans :
          ( /\ pc[t] = "match"
            /\ StepOf(t)
            /\ WellFormed(ev[t])
            /\ RegisteredAt(SpanIdOf(ev[t]), c)
            /\ ~rxAlive[c] )
          => pc'[t] = "warn" /\ UNCHANGED << queue, senders, rxAlive >>]_vars
  /\ [](\A t \in Threads :
          (pc[t] = "warn" \/ diag[t] = << "warn" >>)
          => /\ pc[t] \in {"warn", "exit"}
             /\ sent[t] = << >>
             /\ RegisteredAt(id[t][1], sender[t][1])
             /\ pc[t] = "warn" => diag[t] = << >> /\ ENABLED warn(t)
             /\ pc[t] = "exit" => ENABLED return(t))
  /\ [][\A k \in Keys : \A c \in Chans :
          (RegisteredAt(k, c) /\ ~RegisteredIn(senders', k, c))
          => \E t \in Threads :
               /\ pc[t] = "inserting"
               /\ arg[t][1] = k
               /\ RegisteredIn(senders', k, arg[t][2])]_vars
  /\ [][\A t \in Threads : \A c \in Chans :
          ( /\ pc[t] = "match"
            /\ StepOf(t)
            /\ WellFormed(ev[t])
            /\ RegisteredAt(SpanIdOf(ev[t]), c)
            /\ TrySendOk(c) )
          => /\ sent'[t] = << << c, ExpectedMessage(ev[t]) >> >>
             /\ queue'[c] = Append(queue[c], ExpectedMessage(ev[t]))
             /\ pc'[t] = "exit"]_vars

\* an event for key 1 was dropped with a warning because the consumer of
\* channel A has gone away; A is still registered at 1 while thread 2 is
\* about to register channel B, whose consumer is alive, in its place
C18_Witness ==
  /\ pc[1] = "exit"
  /\ WellFormed(ev[1])
  /\ id[1] = Some(1)
  /\ sender[1] = Some("A")
  /\ diag[1] = << "warn" >>
  /\ ~rxAlive["A"]
  /\ RegisteredAt(1, "A")
  /\ pc[2] = "insert"
  /\ arg[2] = << 1, "B" >>
  /\ rxAlive["B"]

(* ---------------------------------------------------------------------- *)
(* C19                                                                     *)
(* ---------------------------------------------------------------------- *)
\* e is a telemetry event in a telemetry span with an empty json string
C19_EmptyJson(e) ==
  /\ TelemetryEvent(e)
  /\ MarkerSpans(e) # {}
  /\ \E i \in FieldsAt(e, "json", "str") : e.fields[i].str = << >>

\* the payloads of  {}  and  [1]  for span 12:  {"id":12,}  and  {"id":12,1]
C19_EmptyObjectPayload ==
  << "{", "\"", "i", "d", "\"", ":", "1", "2", ",", "}" >>
C19_ArrayPayload ==
  << "{", "\"", "i", "d", "\"", ":", "1", "2", ",", "1", "]" >>

====
